---- MODULE Spec2Model ----
(***************************************************************************)
(* The edit session of the image editor (src/ui/main_window.py):           *)
(* MainWindow's current image, its undo and redo stacks, the WorkerThread  *)
(* objects it starts, the queued finished_image signals, and the view      *)
(* state of the CropLabel preview (zoom, pan offset, preview rotation).    *)
(* A last part models the ImageProcessorApp variant of                     *)
(* src/src/test/image_processor.py, which joins its thread.                *)
(***************************************************************************)
EXTENDS Integers, Sequences, FiniteSets, TLC

\* ------------------------------------------------------------------ bounds
\* what the user requests in one run of the program: an edit counts 2, a
\* change of a view or parameter input counts 1
MaxRequests == 4

\* ------------------------------------------------------- program constants
max_history == 10
SliderDefault == 100
ZoomInPct == 120
RotateButtonAngle == -90

\* ------------------------------------------------------------------ images
\* A PIL image: its size and, standing for its pixels, the operations that
\* produced it from a file.  None is the unset current_image.
None == [w |-> 0, h |-> 0, px |-> <<>>]

Max(a, b) == IF a >= b THEN a ELSE b
Min(a, b) == IF a <= b THEN a ELSE b

FileW(f) == 40 + 21 * (f - 1)
FileH(f) == 30 + 11 * (f - 1)

Image_open(f) == [w |-> FileW(f), h |-> FileH(f), px |-> <<[f |-> "file", a |-> f]>>]

\* ImageTools.scale: int(img.width * factor), at least 1; factor = pct / 100
ImageTools_scale(img, pct) ==
    [w |-> Max(1, (img.w * pct) \div 100),
     h |-> Max(1, (img.h * pct) \div 100),
     px |-> Append(img.px, [f |-> "scale", a |-> pct])]

\* ImageTools.rotate with expand=True, for multiples of 90 degrees
ImageTools_rotate(img, angle) ==
    [w |-> IF (angle \div 90) % 2 = 0 THEN img.w ELSE img.h,
     h |-> IF (angle \div 90) % 2 = 0 THEN img.h ELSE img.w,
     px |-> Append(img.px, [f |-> "rotate", a |-> angle])]

\* ImageTools.grayscale / blur / vintage / add_text_watermark keep the size
ImageTools_same_size(img, name) ==
    [w |-> img.w, h |-> img.h, px |-> Append(img.px, [f |-> name, a |-> 0])]

\* the box of a crop as one number (image sides stay below 100)
CropBox(l, t, r, b) == ((l * 100 + t) * 100 + r) * 100 + b

\* faulty variant: the box handed to Image.crop is (left, top, width, height)
ImageTools_crop_size_as_corner(img, left, top, width, height) ==
    LET l == Max(0, Min(left, img.w - 1))
        t == Max(0, Min(top, img.h - 1))
        r == Max(l + 1, Min(width, img.w))
        b == Max(t + 1, Min(height, img.h))
    IN  [w |-> r - l, h |-> b - t,
         px |-> Append(img.px, [f |-> "crop", a |-> CropBox(l, t, r, b)])]

\* ImageTools.crop
ImageTools_crop(img, left, top, width, height) ==
    LET l == Max(0, Min(left, img.w - 1))
        t == Max(0, Min(top, img.h - 1))
        r == Max(l + 1, Min(left + width, img.w))
        b == Max(t + 1, Min(top + height, img.h))
    IN  [w |-> r - l, h |-> b - t,
         px |-> Append(img.px, [f |-> "crop", a |-> CropBox(l, t, r, b)])]

\* WorkerThread.run: result = self.func(*self.args)
CallFunc(func, img) ==
    CASE func.f = "scale" -> ImageTools_scale(img, func.a)
      [] func.f = "rotate" -> ImageTools_rotate(img, func.a)
      [] OTHER -> ImageTools_same_size(img, func.f)

\* ------------------------------------------------------ exact arithmetic
\* Python floats are modelled as exact fractions <<numerator, denominator>>
\* in lowest terms with a positive denominator.
RECURSIVE Gcd(_, _)
Gcd(a, b) == IF b = 0 THEN a ELSE Gcd(b, a % b)
Abs(a) == IF a < 0 THEN -a ELSE a

Frac(n, d) ==
    LET s == IF d < 0 THEN -1 ELSE 1
        g == Gcd(Abs(n), Abs(d))
    IN  <<(s * n) \div g, (s * d) \div g>>
FInt(n) == <<n, 1>>
FAdd(x, y) == Frac(x[1] * y[2] + y[1] * x[2], x[2] * y[2])
FSub(x, y) == Frac(x[1] * y[2] - y[1] * x[2], x[2] * y[2])
FMul(x, y) == Frac(x[1] * y[1], x[2] * y[2])
FDiv(x, y) == Frac(x[1] * y[2], x[2] * y[1])
FLess(x, y) == x[1] * y[2] < y[1] * x[2]
FAbs(x) == <<Abs(x[1]), x[2]>>
FMax(x, y) == IF FLess(x, y) THEN y ELSE x
FMin(x, y) == IF FLess(y, x) THEN y ELSE x
\* int(x) for x >= 0
FTrunc(x) == x[1] \div x[2]

\* ---------------------------------------------------------------- preview
\* size of CropLabel.contentsRect()
LabelW == 401
LabelH == 300

ZoomMin == Frac(1, 10)
ZoomMax == FInt(10)
ZoomEps == Frac(1, 1000)

\* CropLabel._original_pixmap: None before the first update_preview, a null
\* QPixmap() (size 0 x 0) when there is no image, else the image's size
NonePixmap == [w |-> -1, h |-> -1]
QPixmap(img) == [w |-> img.w, h |-> img.h]

\* an unset Optional[QPoint] or Optional[float]; a QPoint is <<x, y>>
NonePoint == <<>>
NoneRatio == <<>>

\* CropLabel.__init__; float_pan tells whether _offset_x and _offset_y hold
\* Python floats rather than ints, buttons is the set of mouse buttons held
\* down over the label
CropLabel_init ==
    [pix |-> NonePixmap, zoom |-> FInt(1), ox |-> FInt(0), oy |-> FInt(0), rot |-> 0,
     float_pan |-> FALSE,
     selecting |-> FALSE, start_pos |-> NonePoint, end_pos |-> NonePoint,
     dragging |-> FALSE, drag_start_pos |-> NonePoint, aspect_ratio |-> NoneRatio,
     watermark_mode |-> FALSE, watermark_pos |-> NonePoint, buttons |-> {}]

\* faulty variant: the new pixmap is installed without clearing the pan offset
set_original_pixmap_keeps_pan(lbl, pixmap) ==
    [lbl EXCEPT !.pix = pixmap, !.zoom = FInt(1), !.rot = 0]

\* CropLabel.set_original_pixmap
set_original_pixmap(lbl, pixmap) ==
    [lbl EXCEPT !.pix = pixmap, !.zoom = FInt(1), !.ox = FInt(0), !.oy = FInt(0),
                !.float_pan = FALSE, !.rot = 0]

\* CropLabel.set_preview_rotate_angle
set_preview_rotate_angle(lbl, angle) == [lbl EXCEPT !.rot = angle]

\* one axis of the pivot computation shared by set_zoom_factor, wheelEvent and
\* zoom_at_point: the new offset that keeps the image point under `pivot`
PivotOffset(label, scaled, other_scaled, new_scaled, offset, pivot) ==
    LET img_pos == FAdd(FInt((label - scaled) \div 2), offset)
        rel == FSub(pivot, img_pos)
        ratio == IF scaled > 0 /\ other_scaled > 0
                 THEN FDiv(rel, FInt(scaled)) ELSE Frac(1, 2)
        new_img_pos == FSub(pivot, FMul(ratio, FInt(new_scaled)))
    IN  FSub(new_img_pos, FInt((label - new_scaled) \div 2))

\* CropLabel.set_zoom_factor: zoom about the centre of the label
set_zoom_factor(lbl, zoom_factor) ==
    LET z == FMax(ZoomMin, FMin(ZoomMax, zoom_factor))
        sw == FTrunc(FMul(FInt(lbl.pix.w), lbl.zoom))
        sh == FTrunc(FMul(FInt(lbl.pix.h), lbl.zoom))
        nsw == FTrunc(FMul(FInt(lbl.pix.w), z))
        nsh == FTrunc(FMul(FInt(lbl.pix.h), z))
    IN  IF lbl.pix = NonePixmap THEN lbl
        ELSE IF FLess(FAbs(FSub(z, lbl.zoom)), ZoomEps) THEN lbl
        ELSE [lbl EXCEPT !.zoom = z, !.float_pan = TRUE,
                         !.ox = PivotOffset(LabelW, sw, sh, nsw, lbl.ox, Frac(LabelW, 2)),
                         !.oy = PivotOffset(LabelH, sh, sw, nsh, lbl.oy, Frac(LabelH, 2))]

\* faulty variant: the zoom is reset and the pan offset is left
reset_view_zoom_only(lbl) == [lbl EXCEPT !.zoom = FInt(1)]

\* CropLabel.reset_view
reset_view(lbl) ==
    [lbl EXCEPT !.zoom = FInt(1), !.ox = FInt(0), !.oy = FInt(0), !.float_pan = FALSE]

\* CropLabel.clear_selection
clear_selection(lbl) ==
    [lbl EXCEPT !.selecting = FALSE, !.start_pos = NonePoint, !.end_pos = NonePoint]

\* CropLabel.set_watermark_mode
set_watermark_mode(lbl, enabled) ==
    IF enabled THEN [lbl EXCEPT !.watermark_mode = TRUE]
    ELSE [lbl EXCEPT !.watermark_mode = FALSE, !.watermark_pos = NonePoint]

\* MainWindow._update_watermark_preview with CropLabel.set_watermark_preview:
\* in watermark mode the point shown is the one in the custom position inputs
update_watermark_preview(lbl, img, pnl) ==
    IF img = None \/ ~lbl.watermark_mode THEN lbl
    ELSE IF pnl.wm_pos = "custom"
         THEN [lbl EXCEPT !.watermark_pos = <<pnl.wm_custom_x, pnl.wm_custom_y>>]
         ELSE lbl

\* MainWindow.update_preview, as far as it changes the preview label; pnl is
\* the side panel
update_preview(lbl, img, slider_value, rotate_angle, pnl) ==
    IF img = None
    THEN clear_selection(set_original_pixmap(lbl, [w |-> 0, h |-> 0]))
    ELSE LET shown == set_original_pixmap(lbl, QPixmap(img))
             zoomed == IF slider_value # SliderDefault
                       THEN set_zoom_factor(shown, Frac(slider_value, 100))
                       ELSE shown
             turned == IF rotate_angle # 0
                       THEN set_preview_rotate_angle(zoomed, rotate_angle)
                       ELSE zoomed
         IN  update_watermark_preview(clear_selection(turned), img, pnl)

\* ---------------------------------------------------------------- geometry
\* math.floor and Python's round() (halves go to the even neighbour)
FFloor(x) == x[1] \div x[2]
FRound(x) ==
    LET f == FFloor(x)
        twice == FSub(FMul(FInt(2), x), FInt(2 * f))
    IN  IF FLess(twice, FInt(1)) THEN f
        ELSE IF FLess(FInt(1), twice) THEN f + 1
        ELSE IF f % 2 = 0 THEN f ELSE f + 1

\* QSize(w, h).scaled(sw, sh, KeepAspectRatio): the ratio is kept by shrinking
\* one side; an empty request or result gives a null pixmap, of size 0 x 0
KeepAspectRatio(w, h, sw, sh) ==
    IF w <= 0 \/ h <= 0 \/ sw <= 0 \/ sh <= 0 THEN [w |-> 0, h |-> 0]
    ELSE IF (sh * w) \div h <= sw
         THEN IF (sh * w) \div h <= 0 THEN [w |-> 0, h |-> 0]
              ELSE [w |-> (sh * w) \div h, h |-> sh]
         ELSE IF (sw * h) \div w <= 0 THEN [w |-> 0, h |-> 0]
              ELSE [w |-> sw, h |-> (sw * h) \div w]

\* size of self._original_pixmap.scaled(int(w * zoom), int(h * zoom),
\* KeepAspectRatio)
ScaledPixmap(lbl) ==
    KeepAspectRatio(lbl.pix.w, lbl.pix.h,
                    FTrunc(FMul(FInt(lbl.pix.w), lbl.zoom)),
                    FTrunc(FMul(FInt(lbl.pix.h), lbl.zoom)))

\* the position of the drawn bitmap's top-left corner in the label
ImgX(lbl) == FAdd(FInt((LabelW - ScaledPixmap(lbl).w) \div 2), lbl.ox)
ImgY(lbl) == FAdd(FInt((LabelH - ScaledPixmap(lbl).h) \div 2), lbl.oy)

\* one axis of screen_to_image_coords
ImageCoord(rel, scaled, size) ==
    Max(0, Min(FRound(FMul(FDiv(rel, FInt(scaled)), FInt(size))), size - 1))

\* CropLabel.screen_to_image_coords: NonePoint stands for None
screen_to_image_coords(lbl, screen_pos) ==
    IF lbl.pix = NonePixmap THEN NonePoint
    ELSE LET sp == ScaledPixmap(lbl)
         IN  IF sp.w > 0 /\ sp.h > 0
             THEN <<ImageCoord(FSub(FInt(screen_pos[1]), ImgX(lbl)), sp.w, lbl.pix.w),
                    ImageCoord(FSub(FInt(screen_pos[2]), ImgY(lbl)), sp.h, lbl.pix.h)>>
             ELSE NonePoint

\* faulty variant: the new zoom is not clamped to [0.1, 10]
zoom_to_unclamped(lbl, point, new_zoom) ==
    LET z == new_zoom
        sw == FTrunc(FMul(FInt(lbl.pix.w), lbl.zoom))
        sh == FTrunc(FMul(FInt(lbl.pix.h), lbl.zoom))
        nsw == FTrunc(FMul(FInt(lbl.pix.w), z))
        nsh == FTrunc(FMul(FInt(lbl.pix.h), z))
    IN  IF lbl.pix = NonePixmap THEN lbl
        ELSE IF FLess(FAbs(FSub(z, lbl.zoom)), ZoomEps) THEN lbl
        ELSE [lbl EXCEPT !.zoom = z, !.float_pan = TRUE,
                         !.ox = PivotOffset(LabelW, sw, sh, nsw, lbl.ox, FInt(point[1])),
                         !.oy = PivotOffset(LabelH, sh, sw, nsh, lbl.oy, FInt(point[2]))]

\* the second half of CropLabel.wheelEvent and CropLabel.zoom_at_point: the
\* zoom is set to new_zoom, clamped, keeping the image point under `point`
zoom_to(lbl, point, new_zoom) ==
    LET z == FMax(ZoomMin, FMin(ZoomMax, new_zoom))
        sw == FTrunc(FMul(FInt(lbl.pix.w), lbl.zoom))
        sh == FTrunc(FMul(FInt(lbl.pix.h), lbl.zoom))
        nsw == FTrunc(FMul(FInt(lbl.pix.w), z))
        nsh == FTrunc(FMul(FInt(lbl.pix.h), z))
    IN  IF lbl.pix = NonePixmap THEN lbl
        ELSE IF FLess(FAbs(FSub(z, lbl.zoom)), ZoomEps) THEN lbl
        ELSE [lbl EXCEPT !.zoom = z, !.float_pan = TRUE,
                         !.ox = PivotOffset(LabelW, sw, sh, nsw, lbl.ox, FInt(point[1])),
                         !.oy = PivotOffset(LabelH, sh, sw, nsh, lbl.oy, FInt(point[2]))]

\* the body shared by CropLabel.wheelEvent and CropLabel.zoom_at_point: one
\* step of 10% up or down about the screen point `point`
zoom_step(lbl, point, zoom_in) ==
    zoom_to(lbl, point, IF zoom_in THEN FMul(lbl.zoom, Frac(11, 10))
                        ELSE FMul(lbl.zoom, Frac(9, 10)))

\* CropLabel.wheelEvent with the pointer at mouse_pos; up: angleDelta().y() > 0
wheelEvent(lbl, mouse_pos, up) == zoom_step(lbl, mouse_pos, up)

\* CropLabel.zoom_at_point
zoom_at_point(lbl, point, zoom_in) == zoom_step(lbl, point, zoom_in)

\* --------------------------------------------------------------- selection
\* int() of a float of either sign
FInt0(x) == IF x[1] >= 0 THEN x[1] \div x[2] ELSE -((-x[1]) \div x[2])

\* A screen coordinate computed by the mouse handlers: its value and whether
\* the Python object is a float (QPoint(x, y) takes ints only).
Coord(v, f) == [v |-> v, f |-> f]
IntCoord(n) == Coord(FInt(n), FALSE)

\* max(lo, min(c, hi)) as Python picks the object: min and max return their
\* first argument unless the second is strictly smaller / larger
Clamped(c, lo, hi) ==
    LET m == IF FLess(hi.v, c.v) THEN hi ELSE c
    IN  IF FLess(lo.v, m.v) THEN m ELSE lo

\* start + size or start - size
Offset(start, size, forward) ==
    IF forward THEN Coord(FAdd(FInt(start), size.v), size.f)
    ELSE Coord(FSub(FInt(start), size.v), size.f)

\* first step of the aspect-locked drag: the end point that keeps the ratio,
\* led by the larger of the two mouse deltas
SnappedEnd(start, cur, a) ==
    LET dx == cur[1] - start[1]
        dy == cur[2] - start[2]
        wide == Abs(dx) > Abs(dy)
        nw == IF wide THEN Abs(dx) ELSE FInt0(FMul(FInt(Abs(dy)), a))
        nh == IF wide THEN FInt0(FDiv(FInt(Abs(dx)), a)) ELSE Abs(dy)
    IN  [x |-> IntCoord(IF dx >= 0 THEN start[1] + nw ELSE start[1] - nw),
         y |-> IntCoord(IF dy >= 0 THEN start[2] + nh ELSE start[2] - nh)]

\* second step: the size recomputed from the actual deltas, led by the width
\* when |dx| > |dy| * ratio
Resized(start, e, a) ==
    LET adx == FSub(e.x.v, FInt(start[1]))
        ady == FSub(e.y.v, FInt(start[2]))
        wide == FLess(FMul(FAbs(ady), a), FAbs(adx))
        fw == IF wide THEN Coord(FAbs(adx), e.x.f)
              ELSE Coord(FInt(FInt0(FMul(FAbs(ady), a))), FALSE)
        fh == IF wide THEN Coord(FInt(FInt0(FDiv(FAbs(adx), a))), FALSE)
              ELSE Coord(FAbs(ady), e.y.f)
    IN  [x |-> Offset(start[1], fw, ~FLess(adx, FInt(0))),
         y |-> Offset(start[2], fh, ~FLess(ady, FInt(0)))]

\* the edges of the drawn bitmap as the handlers compute them
Edge(lbl, v) == Coord(v, lbl.float_pan)
ImgLeft(lbl) == Edge(lbl, ImgX(lbl))
ImgTop(lbl) == Edge(lbl, ImgY(lbl))
ImgRight(lbl) == Edge(lbl, FAdd(ImgX(lbl), FInt(ScaledPixmap(lbl).w)))
ImgBottom(lbl) == Edge(lbl, FAdd(ImgY(lbl), FInt(ScaledPixmap(lbl).h)))

\* end_x moved onto an image edge, end_y recomputed from the ratio
AdjustX(start, e, edge, a, right, down) ==
    LET fw == IF right THEN FSub(edge.v, FInt(start[1])) ELSE FSub(FInt(start[1]), edge.v)
        fh == FInt0(FDiv(fw, a))
    IN  [x |-> edge, y |-> IntCoord(IF down THEN start[2] + fh ELSE start[2] - fh)]

\* end_y moved onto an image edge, end_x recomputed from the ratio
AdjustY(start, e, edge, a, right, down) ==
    LET fh == IF down THEN FSub(edge.v, FInt(start[2])) ELSE FSub(FInt(start[2]), edge.v)
        fw == FInt0(FMul(fh, a))
    IN  [x |-> IntCoord(IF right THEN start[1] + fw ELSE start[1] - fw), y |-> edge]

ClampedEnd(lbl, e) ==
    [x |-> Clamped(e.x, ImgLeft(lbl), ImgRight(lbl)),
     y |-> Clamped(e.y, ImgTop(lbl), ImgBottom(lbl))]

\* The end point mouseMoveEvent computes under a locked ratio: the snapped
\* end, resized, then moved onto the left, right, top and bottom edge of the
\* bitmap in turn where it lies beyond, and clamped.  The steps are the
\* operators of the LET, last step first.
MoveEnd(lbl, cur) ==
    LET start == lbl.start_pos
        a == lbl.aspect_ratio
        AtBottom(e4, right, down) ==
            ClampedEnd(lbl, IF FLess(ImgBottom(lbl).v, e4.y.v)
                            THEN AdjustY(start, e4, ImgBottom(lbl), a, right, down)
                            ELSE e4)
        AtTop(e3, right, down) ==
            AtBottom(IF FLess(e3.y.v, ImgY(lbl))
                     THEN AdjustY(start, e3, ImgTop(lbl), a, right, down) ELSE e3,
                     right, down)
        AtRight(e2, right, down) ==
            AtTop(IF FLess(ImgRight(lbl).v, e2.x.v)
                  THEN AdjustX(start, e2, ImgRight(lbl), a, right, down) ELSE e2,
                  right, down)
        AtLeft(e1, right, down) ==
            AtRight(IF FLess(e1.x.v, ImgX(lbl))
                    THEN AdjustX(start, e1, ImgLeft(lbl), a, right, down) ELSE e1,
                    right, down)
        Snapped(e0) ==
            IF lbl.pix = NonePixmap THEN e0
            ELSE AtLeft(Resized(start, e0, a),
                        e0.x.v[1] >= start[1] * e0.x.v[2],
                        e0.y.v[1] >= start[2] * e0.y.v[2])
    IN  Snapped(SnappedEnd(start, cur, a))

\* The end point mouseReleaseEvent computes under a locked ratio when the
\* release position differs from the end point of the last move.
ReleaseEnd(lbl, cur) ==
    LET start == lbl.start_pos
        a == lbl.aspect_ratio
    IN  ClampedEnd(lbl, Resized(start, ClampedEnd(lbl, SnappedEnd(start, cur, a)), a))

\* QPoint(end_x, end_y) raises TypeError when either argument is a float
IsQPoint(e) == ~e.x.f /\ ~e.y.f
ToQPoint(e) == <<FFloor(e.x.v), FFloor(e.y.v)>>

\* QRect as its corner coordinates; QRect(p1, p2) and QRect(x, y, w, h)
NoneRect == <<>>
QRectOf(p1, p2) == [x1 |-> p1[1], y1 |-> p1[2], x2 |-> p2[1], y2 |-> p2[2]]
QRectXYWH(x, y, w, h) == [x1 |-> x, y1 |-> y, x2 |-> x + w - 1, y2 |-> y + h - 1]
Width(r) == r.x2 - r.x1 + 1
Height(r) == r.y2 - r.y1 + 1

\* QRect.normalized(): a reversed side is swapped inwards by one pixel
normalized(r) ==
    LET xs == IF r.x2 < r.x1 THEN <<r.x2 + 1, r.x1 - 1>> ELSE <<r.x1, r.x2>>
        ys == IF r.y2 < r.y1 THEN <<r.y2 + 1, r.y1 - 1>> ELSE <<r.y1, r.y2>>
    IN  [x1 |-> xs[1], y1 |-> ys[1], x2 |-> xs[2], y2 |-> ys[2]]

\* QRect.center(): C++ integer division, truncating towards zero
Half(n) == IF n >= 0 THEN n \div 2 ELSE -((-n) \div 2)
\* a centre taken at the rectangle's top-left corner
Center_corner(r) == <<r.x1, r.y1>>
Center(r) == <<Half(r.x1 + r.x2), Half(r.y1 + r.y2)>>

\* CropLabel._current_rect
current_rect(lbl) ==
    IF lbl.start_pos = NonePoint \/ lbl.end_pos = NonePoint THEN NoneRect
    ELSE normalized(QRectOf(lbl.start_pos, lbl.end_pos))

RatioTolerance == Frac(1, 1000)
FinalRatioTolerance == Frac(1, 100)

\* CropLabel.screen_rect_to_image_rect: NoneRect stands for None.  The steps
\* of the function are the operators of the LET, last step first; each takes
\* the values the steps before it computed.
screen_rect_to_image_rect(lbl, r) ==
    LET sp == ScaledPixmap(lbl)
        W == lbl.pix.w
        H == lbl.pix.h
        a == lbl.aspect_ratio
        locked == a # NoneRatio
        \* the final ratio check: w5, h5 are the sides recomputed from the ratio
        Recomputed(left, top, w4, h4, w5, h5, recheck, too_wide) ==
            QRectXYWH(left, top,
                      IF ~recheck THEN w4
                      ELSE IF too_wide THEN (IF left + w5 > W THEN W - left ELSE w5)
                      ELSE IF top + h5 > H THEN FRound(FMul(FInt(H - top), a))
                      ELSE w4,
                      IF ~recheck THEN h4
                      ELSE IF ~too_wide THEN (IF top + h5 > H THEN H - top ELSE h5)
                      ELSE IF left + w5 > W THEN FRound(FDiv(FInt(W - left), a))
                      ELSE h4)
        Rechecked(left, top, w4, h4) ==
            Recomputed(left, top, w4, h4,
                       FRound(FMul(FInt(h4), a)), FRound(FDiv(FInt(w4), a)),
                       locked /\ h4 > 0
                              /\ FLess(FinalRatioTolerance, FAbs(FSub(Frac(w4, h4), a))),
                       FLess(a, Frac(w4, h4)))
        \* the last clamp of the size, to the corner already clamped
        Bounded(left, top, w3, h3) ==
            Rechecked(left, top, Max(1, Min(w3, W - left)), Max(1, Min(h3, H - top)))
        \* the width cut once more after the height was cut under a locked ratio
        CutAgain(left2, top2, w2, h2, again) ==
            Bounded(Max(0, Min(left2, W - 1)), Max(0, Min(top2, H - 1)),
                    IF again /\ left2 + w2 > W THEN W - left2 ELSE w2,
                    IF again /\ left2 + w2 > W THEN FRound(FDiv(FInt(W - left2), a))
                    ELSE h2)
        \* the height cut to the image
        CutHeight(left2, top2, w1, h1) ==
            CutAgain(left2, top2,
                     IF top2 + h1 > H /\ locked THEN FRound(FMul(FInt(H - top2), a))
                     ELSE w1,
                     IF top2 + h1 > H THEN H - top2 ELSE h1,
                     top2 + h1 > H /\ locked)
        \* the width cut to the image
        CutWidth(left2, top2, w0, h0) ==
            CutHeight(left2, top2,
                      IF left2 + w0 > W THEN W - left2 ELSE w0,
                      IF left2 + w0 > W /\ locked THEN FRound(FDiv(FInt(W - left2), a))
                      ELSE h0)
        \* the corner moved into the image, the size kept
        Moved(left0, top0, w0, h0) ==
            CutWidth(Max(0, IF left0 < 0 THEN 0
                            ELSE IF left0 + w0 > W THEN W - w0 ELSE left0),
                     Max(0, IF top0 < 0 THEN 0
                            ELSE IF top0 + h0 > H THEN H - h0 ELSE top0),
                     w0, h0)
        \* the rounded size about the centre
        Placed(w0, h0, icx, icy) ==
            IF w0 <= 0 \/ h0 <= 0 THEN NoneRect
            ELSE Moved(FRound(FSub(icx, Frac(w0, 2))), FRound(FSub(icy, Frac(h0, 2))),
                       w0, h0)
        \* the size brought to the locked ratio, and rounded
        Adjusted(fw0, fh0, icx, icy, adjust) ==
            Placed(FRound(IF adjust /\ FLess(a, FDiv(fw0, fh0)) THEN FMul(fh0, a)
                          ELSE fw0),
                   FRound(IF adjust /\ ~FLess(a, FDiv(fw0, fh0)) THEN FDiv(fw0, a)
                          ELSE fh0),
                   icx, icy)
        Sized(fw0, fh0, icx, icy) ==
            Adjusted(fw0, fh0, icx, icy,
                     locked /\ FLess(RatioTolerance,
                                     FAbs(FSub(IF FLess(FInt(0), fh0)
                                               THEN FDiv(fw0, fh0) ELSE FInt(0), a))))
        \* the centre relative to the bitmap, and the scaling to image pixels
        Centred(scx, scy) ==
            IF \/ FLess(scx, FInt(0)) \/ FLess(FInt(sp.w), scx)
               \/ FLess(scy, FInt(0)) \/ FLess(FInt(sp.h), scy)
            THEN NoneRect
            ELSE Sized(FMul(FDiv(FInt(Width(r)), FInt(sp.w)), FInt(W)),
                       FMul(FDiv(FInt(Height(r)), FInt(sp.h)), FInt(H)),
                       FMul(FDiv(scx, FInt(sp.w)), FInt(W)),
                       FMul(FDiv(scy, FInt(sp.h)), FInt(H)))
    IN  IF lbl.pix = NonePixmap THEN NoneRect
        ELSE IF sp.w <= 0 \/ sp.h <= 0 THEN NoneRect
        ELSE Centred(FSub(FInt(Center(r)[1]), ImgX(lbl)),
                     FSub(FInt(Center(r)[2]), ImgY(lbl)))

\* CropLabel.set_aspect_ratio: an existing selection is resized about its
\* centre to the new ratio
set_aspect_ratio(lbl, ratio) ==
    LET r == current_rect(lbl)
        c == Center(r)
        wide == FLess(ratio, Frac(Width(r), Height(r)))
        new_width == IF wide THEN Width(r) ELSE FInt0(FMul(FInt(Height(r)), ratio))
        new_height == IF wide THEN FInt0(FDiv(FInt(Width(r)), ratio)) ELSE Height(r)
        half_w == new_width \div 2
        half_h == new_height \div 2
    IN  IF ratio = NoneRatio \/ r = NoneRect \/ Width(r) <= 0 \/ Height(r) <= 0
        THEN [lbl EXCEPT !.aspect_ratio = ratio]
        ELSE [lbl EXCEPT !.aspect_ratio = ratio,
                         !.start_pos = <<c[1] - half_w, c[2] - half_h>>,
                         !.end_pos = <<c[1] + half_w, c[2] + half_h>>]

\* CropLabel.mousePressEvent
mousePressEvent(lbl, button, pos) ==
    LET img_pos == screen_to_image_coords(lbl, pos)
        held == [lbl EXCEPT !.buttons = @ \cup {button}]
    IN  IF button = "Left"
        THEN IF lbl.watermark_mode
             THEN IF img_pos # NonePoint THEN [held EXCEPT !.watermark_pos = img_pos]
                  ELSE held
             ELSE [held EXCEPT !.selecting = TRUE, !.start_pos = pos, !.end_pos = pos]
        ELSE [held EXCEPT !.dragging = TRUE, !.drag_start_pos = pos]

\* The outcome of an event handler: the label afterwards, whether the handler
\* returned (ok) or raised, and what it emitted (NoneRect, NonePoint: nothing).
Returned(lbl) == [lbl |-> lbl, ok |-> TRUE, rect |-> NoneRect, point |-> NonePoint]
Raised(lbl) == [lbl |-> lbl, ok |-> FALSE, rect |-> NoneRect, point |-> NonePoint]

\* CropLabel.mouseMoveEvent
mouseMoveEvent(lbl, pos) ==
    IF lbl.selecting
    THEN IF lbl.aspect_ratio # NoneRatio /\ lbl.start_pos # NonePoint
         THEN LET Ended(e) == IF IsQPoint(e)
                              THEN Returned([lbl EXCEPT !.end_pos = ToQPoint(e)])
                              ELSE Raised(lbl)
              IN  Ended(MoveEnd(lbl, pos))
         ELSE Returned([lbl EXCEPT !.end_pos = pos])
    ELSE IF lbl.dragging /\ lbl.drag_start_pos # NonePoint
         THEN Returned([lbl EXCEPT !.ox = FAdd(@, FInt(pos[1] - lbl.drag_start_pos[1])),
                                   !.oy = FAdd(@, FInt(pos[2] - lbl.drag_start_pos[2])),
                                   !.drag_start_pos = pos])
         ELSE Returned(lbl)

\* the end of mouseReleaseEvent's left-button branch: the selection, if it is
\* a rectangle, is emitted with selection_finished
FinishedSelection(lbl, point) ==
    LET Emit(rect) == IF rect # NoneRect /\ Width(rect) > 0 /\ Height(rect) > 0
                      THEN rect ELSE NoneRect
    IN  [lbl |-> lbl, ok |-> TRUE, point |-> point, rect |-> Emit(current_rect(lbl))]

\* CropLabel.mouseReleaseEvent.  Under a locked ratio the end point is
\* recomputed from deltas that are assigned only when the release position
\* differs from the end point of the last move: the handler raises
\* UnboundLocalError otherwise.
mouseReleaseEvent(lbl, button, pos) ==
    LET up == [lbl EXCEPT !.buttons = @ \ {button}]
        stopped == [up EXCEPT !.selecting = FALSE]
        Ended(e) == IF IsQPoint(e)
                    THEN FinishedSelection([stopped EXCEPT !.end_pos = ToQPoint(e)],
                                           NonePoint)
                    ELSE Raised(stopped)
    IN  IF button = "Left"
        THEN IF lbl.watermark_mode /\ lbl.watermark_pos # NonePoint
             THEN FinishedSelection(up, lbl.watermark_pos)
             ELSE IF lbl.selecting
             THEN IF lbl.aspect_ratio # NoneRatio /\ lbl.start_pos # NonePoint
                  THEN IF lbl.end_pos = pos THEN Raised(stopped)
                       ELSE IF lbl.pix = NonePixmap THEN FinishedSelection(stopped, NonePoint)
                       ELSE Ended(ReleaseEnd(lbl, pos))
                  ELSE FinishedSelection(stopped, NonePoint)
             ELSE FinishedSelection([up EXCEPT !.end_pos = pos], NonePoint)
        ELSE IF lbl.dragging THEN Returned([up EXCEPT !.dragging = FALSE])
        ELSE Returned(up)

\* ------------------------------------------------------------------- state
VARIABLES
    alive,            \* the process has not been aborted by Qt
    original_image,   \* MainWindow.original_image
    current_image,    \* MainWindow.current_image
    history,          \* MainWindow.history, oldest first
    redo_history,     \* MainWindow.redo_history, oldest first
    worker,           \* MainWindow.worker: "None" or "set"
    threads,          \* WorkerThreads whose run() has not returned, in start order
    sigq,             \* finished_image emissions queued for the UI thread
    dialog,           \* the message box shown by the last handler, "" if none
    current_filter,   \* MainWindow.current_filter
    s_slider,         \* value of the zoom slider
    rotate_spin,      \* value of the rotation input
    panel,            \* the crop text inputs and the watermark position inputs
    preview_label,    \* the CropLabel: view state, selection, modes
    requests,         \* weight of the requests made so far (bounds the run)
    pushed,           \* log: the consecutive push_history calls since the last
                      \* load, reset, undo or redo; image, operation, serial
    raised            \* log: serials of the operations whose call raised

vars == <<alive, original_image, current_image, history, redo_history, worker,
          threads, sigq, dialog, current_filter, s_slider, rotate_spin, panel,
          preview_label, requests, pushed, raised>>

edit_vars == <<original_image, current_image, history, redo_history>>
thread_vars == <<alive, worker, threads, sigq>>
input_vars == <<current_filter, s_slider, rotate_spin, panel>>

\* inputs the user chooses among
Files == {1}
SliderValues == {SliderDefault, 150}
SpinValues == {0, 90}
Filters == {"none", "grayscale"}

\* the side panel as build_ui leaves it: the crop text inputs (the numbers
\* they hold; crop_numeric is FALSE while one of the four holds a text that
\* int() rejects), the watermark position combo ("custom" stands for its last
\* entry), the custom position inputs and their upper limits
Panel_init ==
    [crop_left |-> 0, crop_top |-> 0, crop_w |-> 200, crop_h |-> 200,
     crop_numeric |-> TRUE,
     wm_pos |-> "bottom-right", wm_custom_x |-> 0, wm_custom_y |-> 0,
     wm_max_x |-> 10000, wm_max_y |-> 10000]

\* wm_custom_x.setRange(0, width), wm_custom_y.setRange(0, height): a value
\* above the new limit is lowered to it
WatermarkRange(pnl, img) ==
    IF img = None THEN pnl
    ELSE [pnl EXCEPT !.wm_max_x = img.w, !.wm_max_y = img.h,
                     !.wm_custom_x = Min(@, img.w), !.wm_custom_y = Min(@, img.h)]

\* MainWindow.__init__
Init ==
    /\ alive = TRUE
    /\ original_image = None
    /\ current_image = None
    /\ history = <<>>
    /\ redo_history = <<>>
    /\ worker = "None"
    /\ threads = <<>>
    /\ sigq = <<>>
    /\ dialog = ""
    /\ current_filter = "none"
    /\ s_slider = SliderDefault
    /\ rotate_spin = 0
    /\ panel = Panel_init
    /\ preview_label = CropLabel_init
    /\ requests = 0
    /\ pushed = <<>>
    /\ raised = {}

\* ----------------------------------------------------------------- history
\* faulty variant: the snapshot is appended and nothing is evicted
PushedHistory_no_evict(h, img) == IF img # None THEN Append(h, img) ELSE h

\* faulty variant: a full stack evicts its newest entry (pop() for pop(0))
PushedHistory_evict_newest(h, img) ==
    IF img # None
    THEN IF Len(h) + 1 > max_history THEN h ELSE Append(h, img)
    ELSE h

\* MainWindow.push_history: the undo stack afterwards
PushedHistory(h, img) ==
    IF img # None
    THEN IF Len(h) + 1 > max_history THEN Tail(Append(h, img)) ELSE Append(h, img)
    ELSE h

\* faulty variant: the redo stack is not cleared
PushedRedo_kept(r, img) == r

\* MainWindow.push_history: the redo stack afterwards
PushedRedo(r, img) == IF img # None THEN <<>> ELSE r

\* one more request of the user, within the bound of the run
request(weight) ==
    /\ requests + weight <= MaxRequests
    /\ requests' = requests + weight

\* func is the operation the caller goes on to dispatch (for the log only)
push_history(func) ==
    /\ request(2)
    /\ history' = PushedHistory(history, current_image)
    /\ redo_history' = PushedRedo(redo_history, current_image)
    /\ pushed' = Append(pushed, [img |-> current_image, func |-> func, n |-> requests + 2])

\* the append-and-evict of undo() and redo() onto the opposite stack
Stacked(stack, img) ==
    IF img # None
    THEN IF Len(stack) + 1 > max_history THEN Tail(Append(stack, img))
         ELSE Append(stack, img)
    ELSE stack

\* list[-1] and the list after list.pop()
Top(stack) == stack[Len(stack)]

\* faulty variant: pop(0) for pop()
Popped_oldest(stack) == Tail(stack)

Popped(stack) == SubSeq(stack, 1, Len(stack) - 1)

\* ----------------------------------------------------------------- workers
\* Rebinding self.worker drops the only reference to the WorkerThread it held.
Released(ts) == [i \in DOMAIN ts |-> [ts[i] EXCEPT !.held = FALSE]]
HeldRunning == \E i \in DOMAIN threads : threads[i].held
RemoveAt(ts, i) == SubSeq(ts, 1, i - 1) \o SubSeq(ts, i + 1, Len(ts))

\* self.worker = WorkerThread(func, self.current_image, ...); connect; start().
\* A QThread that loses its last reference while its run() is executing is
\* destroyed by Qt with a fatal error, or survives until run() returns when
\* the interpreter still holds it: both outcomes are kept.
start_worker(func) ==
    /\ \E aborted \in (IF HeldRunning THEN BOOLEAN ELSE {FALSE}) :
          /\ alive' = ~aborted
          /\ worker' = IF aborted THEN worker ELSE "set"
          /\ threads' = IF aborted THEN threads
                        ELSE Append(Released(threads),
                                    [func |-> func, img |-> current_image, held |-> TRUE,
                                     n |-> requests + 2])
          /\ sigq' = IF aborted THEN sigq ELSE Released(sigq)

\* MainWindow.apply_scale, from the zoom buttons (1.2, 0.8) or "apply scale"
apply_scale(pct) ==
    /\ alive
    /\ current_image # None
    /\ push_history([f |-> "scale", a |-> pct])
    /\ start_worker([f |-> "scale", a |-> pct])
    /\ dialog' = ""
    /\ UNCHANGED <<original_image, current_image, input_vars, preview_label, raised>>

\* MainWindow.on_slider_scale
on_slider_scale == apply_scale(s_slider)

\* MainWindow.apply_rotate, from the rotate button (-90) or the rotation input
apply_rotate(angle) ==
    /\ alive
    /\ current_image # None
    /\ push_history([f |-> "rotate", a |-> angle])
    /\ start_worker([f |-> "rotate", a |-> angle])
    /\ preview_label' = set_preview_rotate_angle(preview_label, 0)
    /\ rotate_spin' = 0
    /\ dialog' = ""
    /\ UNCHANGED <<original_image, current_image, current_filter, s_slider, panel, raised>>

\* MainWindow.apply_watermark; text is the content of the watermark text box
\* (a blank text is refused with a warning before anything is touched)
apply_watermark(text) ==
    /\ alive
    /\ current_image # None
    /\ text # ""
    /\ push_history([f |-> "watermark", a |-> 0])
    /\ start_worker([f |-> "watermark", a |-> 0])
    /\ dialog' = ""
    /\ UNCHANGED <<original_image, current_image, input_vars, preview_label, raised>>

\* MainWindow.apply_filter
apply_filter ==
    /\ alive
    /\ current_image # None
    /\ push_history([f |-> current_filter, a |-> 0])
    /\ dialog' = ""
    /\ IF current_filter = "none"
       THEN /\ preview_label' = update_preview(preview_label, current_image,
                                               s_slider, rotate_spin, panel)
            /\ UNCHANGED <<original_image, current_image, thread_vars, input_vars, raised>>
       ELSE /\ start_worker([f |-> current_filter, a |-> 0])
            /\ UNCHANGED <<original_image, current_image, input_vars, preview_label, raised>>

\* faulty variant: a failed operation takes its snapshot back off the undo stack
WorkerThread_run_rollback(i, raises) ==
    /\ alive
    /\ i \in DOMAIN threads
    /\ threads' = RemoveAt(threads, i)
    /\ sigq' = IF raises THEN sigq
               ELSE Append(sigq, [res |-> CallFunc(threads[i].func, threads[i].img),
                                  img |-> threads[i].img, held |-> threads[i].held])
    /\ raised' = IF raises THEN raised \cup {threads[i].n} ELSE raised
    /\ history' = IF raises /\ history # <<>> THEN Popped(history) ELSE history
    /\ UNCHANGED <<alive, worker, original_image, current_image, redo_history, dialog,
                   input_vars, preview_label, requests, pushed>>

\* WorkerThread.run of the i-th running thread: the call returns and
\* finished_image is emitted (queued to the UI thread), or it raises and
\* error is emitted, to which MainWindow connects no slot.  The emission
\* carries the result; img notes the image the thread was given.
WorkerThread_run(i, raises) ==
    /\ alive
    /\ i \in DOMAIN threads
    /\ threads' = RemoveAt(threads, i)
    /\ sigq' = IF raises THEN sigq
               ELSE Append(sigq, [res |-> CallFunc(threads[i].func, threads[i].img),
                                  img |-> threads[i].img, held |-> threads[i].held])
    /\ raised' = IF raises THEN raised \cup {threads[i].n} ELSE raised
    /\ UNCHANGED <<alive, worker, edit_vars, dialog, input_vars, preview_label, requests,
                   pushed>>

\* MainWindow.on_worker_finished, for the oldest queued emission
on_worker_finished ==
    /\ alive
    /\ sigq # <<>>
    /\ current_image' = Head(sigq).res
    /\ preview_label' = update_preview(preview_label, Head(sigq).res, s_slider, rotate_spin, panel)
    /\ \E aborted \in (IF HeldRunning THEN BOOLEAN ELSE {FALSE}) :
          /\ alive' = ~aborted
          /\ worker' = "None"
          /\ threads' = Released(threads)
          /\ sigq' = Released(Tail(sigq))
    /\ dialog' = ""
    /\ UNCHANGED <<original_image, history, redo_history, input_vars, requests,
                   pushed, raised>>

\* The queued emission of a WorkerThread that was destroyed before delivery is
\* discarded together with the thread's connections.
discard_emission(i) ==
    /\ alive
    /\ i \in DOMAIN sigq
    /\ ~sigq[i].held
    /\ sigq' = RemoveAt(sigq, i)
    /\ UNCHANGED <<alive, worker, threads, edit_vars, dialog, input_vars, preview_label,
                   requests, pushed, raised>>

\* ------------------------------------------------------------- undo / redo
\* faulty variant: undo without the empty-stack check; list.pop() then raises after
\* the current image was already put on the redo stack
undo_unchecked ==
    /\ alive
    /\ redo_history' = Stacked(redo_history, current_image)
    /\ IF history = <<>>
       THEN UNCHANGED <<current_image, history, preview_label, pushed>>
       ELSE /\ current_image' = Top(history)
            /\ history' = Popped(history)
            /\ preview_label' = update_preview(preview_label, Top(history),
                                               s_slider, rotate_spin, panel)
            /\ pushed' = <<>>
    /\ dialog' = ""
    /\ UNCHANGED <<original_image, thread_vars, input_vars, requests, raised>>

\* MainWindow.undo
undo ==
    /\ alive
    /\ IF history = <<>>
       THEN /\ dialog' = "information: nothing to undo"
            /\ UNCHANGED <<edit_vars, preview_label, pushed>>
       ELSE /\ redo_history' = Stacked(redo_history, current_image)
            /\ current_image' = Top(history)
            /\ history' = Popped(history)
            /\ preview_label' = update_preview(preview_label, Top(history),
                                               s_slider, rotate_spin, panel)
            /\ dialog' = ""
            /\ pushed' = <<>>
            /\ UNCHANGED original_image
    /\ UNCHANGED <<thread_vars, input_vars, requests, raised>>

\* faulty variant: redo reads the top of the redo stack and leaves it there
redo_keeping ==
    /\ alive
    /\ IF redo_history = <<>>
       THEN /\ dialog' = "information: nothing to redo"
            /\ UNCHANGED <<edit_vars, preview_label, pushed>>
       ELSE /\ history' = Stacked(history, current_image)
            /\ current_image' = Top(redo_history)
            /\ preview_label' = update_preview(preview_label, Top(redo_history),
                                               s_slider, rotate_spin, panel)
            /\ dialog' = ""
            /\ pushed' = <<>>
            /\ UNCHANGED <<original_image, redo_history>>
    /\ UNCHANGED <<thread_vars, input_vars, requests, raised>>

\* MainWindow.redo
redo ==
    /\ alive
    /\ IF redo_history = <<>>
       THEN /\ dialog' = "information: nothing to redo"
            /\ UNCHANGED <<edit_vars, preview_label, pushed>>
       ELSE /\ history' = Stacked(history, current_image)
            /\ current_image' = Top(redo_history)
            /\ redo_history' = Popped(redo_history)
            /\ preview_label' = update_preview(preview_label, Top(redo_history),
                                               s_slider, rotate_spin, panel)
            /\ dialog' = ""
            /\ pushed' = <<>>
            /\ UNCHANGED original_image
    /\ UNCHANGED <<thread_vars, input_vars, requests, raised>>

\* -------------------------------------------------------------- load/reset
\* MainWindow._on_watermark_position_changed: the panel and the label after
WatermarkPanel(pnl, position, img) ==
    IF position = "custom" THEN WatermarkRange([pnl EXCEPT !.wm_pos = position], img)
    ELSE [pnl EXCEPT !.wm_pos = position]

watermark_position_changed(lbl, position, img, pnl) ==
    IF position = "custom"
    THEN IF lbl.pix # NonePixmap
         THEN update_watermark_preview(set_watermark_mode(lbl, TRUE), img,
                                       WatermarkPanel(pnl, position, img))
         ELSE lbl
    ELSE set_watermark_mode(lbl, FALSE)

\* MainWindow.open_image with file f chosen in the dialog
open_image(f) ==
    /\ alive
    /\ original_image' = Image_open(f)
    /\ current_image' = Image_open(f)
    /\ history' = <<>>
    /\ redo_history' = <<>>
    /\ panel' = WatermarkPanel(panel, panel.wm_pos, Image_open(f))
    /\ preview_label' = update_preview(watermark_position_changed(preview_label, panel.wm_pos,
                                                                   Image_open(f), panel),
                                        Image_open(f), s_slider, rotate_spin, panel')
    /\ dialog' = ""
    /\ pushed' = <<>>
    /\ UNCHANGED <<thread_vars, current_filter, s_slider, rotate_spin, requests, raised>>

\* MainWindow.on_slider_value_changed, as a state change of the label
slider_changed(lbl, value) ==
    IF lbl.pix # NonePixmap THEN set_zoom_factor(lbl, Frac(value, 100)) ELSE lbl

\* MainWindow.reset_all_effects, confirmed with Yes
reset_all_effects ==
    /\ alive
    /\ IF original_image = None
       THEN /\ dialog' = "information: no image is open"
            /\ UNCHANGED <<edit_vars, input_vars, preview_label, pushed>>
       ELSE /\ current_image' = original_image
            /\ current_filter' = "none"
            /\ history' = <<>>
            /\ redo_history' = <<>>
            /\ s_slider' = SliderDefault
            /\ rotate_spin' = 0
            /\ panel' = WatermarkRange([panel EXCEPT !.wm_pos = "bottom-right",
                                                      !.wm_custom_x = 0, !.wm_custom_y = 0],
                                        original_image)
            /\ LET slid == IF s_slider # SliderDefault
                           THEN slider_changed(preview_label, SliderDefault)
                           ELSE preview_label
                   preset == IF panel.wm_pos # "bottom-right"
                             THEN watermark_position_changed(slid, "bottom-right",
                                                             original_image, panel)
                             ELSE slid
                   unzoomed == set_zoom_factor(preset, FInt(1))
                   unrotated == set_preview_rotate_angle(unzoomed, 0)
                   plain == [set_watermark_mode(clear_selection(unrotated), FALSE)
                                EXCEPT !.aspect_ratio = NoneRatio]
               IN  preview_label' = update_preview(plain, original_image,
                                                   SliderDefault, 0, panel')
            /\ dialog' = "information: all effects reset"
            /\ pushed' = <<>>
            /\ UNCHANGED original_image
    /\ UNCHANGED <<thread_vars, requests, raised>>

\* -------------------------------------------------------------- view input
\* QSlider.valueChanged -> MainWindow.on_slider_value_changed
on_slider_value_changed(value) ==
    /\ alive
    /\ value # s_slider
    /\ s_slider' = value
    /\ preview_label' = slider_changed(preview_label, value)
    /\ dialog' = ""
    /\ UNCHANGED <<edit_vars, thread_vars, current_filter, rotate_spin, panel, pushed, raised>>
    /\ request(1)

\* NumberInput.valueChanged -> MainWindow.on_rotate_spin_changed
on_rotate_spin_changed(angle) ==
    /\ alive
    /\ angle # rotate_spin
    /\ rotate_spin' = angle
    /\ preview_label' = IF preview_label.pix # NonePixmap
                        THEN set_preview_rotate_angle(preview_label, angle)
                        ELSE preview_label
    /\ dialog' = ""
    /\ UNCHANGED <<edit_vars, thread_vars, current_filter, s_slider, panel, pushed, raised>>
    /\ request(1)

\* faulty variant: resetting the view also discards the edits
reset_preview_view_discarding ==
    /\ alive
    /\ preview_label' = reset_view(preview_label)
    /\ current_image' = original_image
    /\ history' = <<>>
    /\ redo_history' = <<>>
    /\ dialog' = ""
    /\ UNCHANGED <<original_image, thread_vars, input_vars, pushed, raised>>
    /\ request(1)

\* MainWindow.reset_preview_view
reset_preview_view ==
    /\ alive
    /\ preview_label' = reset_view(preview_label)
    /\ dialog' = ""
    /\ UNCHANGED <<edit_vars, thread_vars, input_vars, pushed, raised>>
    /\ request(1)

\* MainWindow._on_filter_changed with checked = True
on_filter_changed(filter_type) ==
    /\ alive
    /\ filter_type # current_filter
    /\ current_filter' = filter_type
    /\ dialog' = ""
    /\ UNCHANGED <<edit_vars, thread_vars, s_slider, rotate_spin, panel, preview_label,
                   pushed, raised>>
    /\ request(1)

\* -------------------------------------------------- mouse, wheel, selection
\* positions of the pointer over the preview label, and a position outside it
Points == {<<200, 150>>, <<202, 151>>, <<214, 160>>, <<120, 100>>}
Outside == <<-1, -1>>
LabelCentre == <<LabelW \div 2, LabelH \div 2>>

\* CropLabel.wheelEvent delivered to the label
on_wheel(mouse_pos, up) ==
    /\ alive
    /\ preview_label' = wheelEvent(preview_label, mouse_pos, up)
    /\ dialog' = ""
    /\ UNCHANGED <<edit_vars, thread_vars, input_vars, pushed, raised>>
    /\ request(1)

\* the body of MainWindow.zoom_in_preview and MainWindow.zoom_out_preview with
\* the cursor at `cursor`
zoom_preview(cursor, zoom_in) ==
    /\ alive
    /\ preview_label' =
           IF preview_label.pix = NonePixmap THEN preview_label
           ELSE zoom_at_point(preview_label,
                              IF cursor = Outside THEN LabelCentre ELSE cursor, zoom_in)
    /\ dialog' = ""
    /\ UNCHANGED <<edit_vars, thread_vars, input_vars, pushed, raised>>
    /\ request(1)

zoom_in_preview(cursor) == zoom_preview(cursor, TRUE)
zoom_out_preview(cursor) == zoom_preview(cursor, FALSE)

\* MainWindow.on_watermark_position_selected: the custom position inputs take
\* the point, within their limits, and the preview follows them
PointSelected(pnl, point) ==
    IF point = NonePoint THEN pnl
    ELSE [pnl EXCEPT !.wm_custom_x = Max(0, Min(point[1], pnl.wm_max_x)),
                     !.wm_custom_y = Max(0, Min(point[2], pnl.wm_max_y))]

\* MainWindow.on_selection_finished: the crop inputs afterwards
Committed(lbl, pnl, img, rect) ==
    LET Set(img_rect) ==
            IF img_rect = NoneRect THEN pnl
            ELSE IF Width(img_rect) < 5 \/ Height(img_rect) < 5 THEN pnl
            ELSE [pnl EXCEPT !.crop_left = img_rect.x1, !.crop_top = img_rect.y1,
                             !.crop_w = Width(img_rect), !.crop_h = Height(img_rect),
                             !.crop_numeric = TRUE]
    IN  IF img = None THEN pnl
        ELSE Set(screen_rect_to_image_rect(lbl, rect))

\* MainWindow.on_selection_finished: the label afterwards
Finished(lbl, img, rect) ==
    LET Kept(img_rect) ==
            IF img_rect = NoneRect THEN clear_selection(lbl)
            ELSE IF Width(img_rect) < 5 \/ Height(img_rect) < 5 THEN clear_selection(lbl)
            ELSE lbl
    IN  IF img = None THEN clear_selection(lbl)
        ELSE Kept(screen_rect_to_image_rect(lbl, rect))

\* a mouse button pressed over the label
on_mouse_press(button, pos) ==
    /\ alive
    /\ button \notin preview_label.buttons
    /\ preview_label' = mousePressEvent(preview_label, button, pos)
    /\ dialog' = ""
    /\ UNCHANGED <<edit_vars, thread_vars, input_vars, pushed, raised>>
    /\ request(1)

\* the pointer moved with a button held (the label does not track the mouse
\* otherwise); an exception leaving the handler makes Qt abort the process
on_mouse_move(pos) ==
    /\ alive
    /\ preview_label.buttons # {}
    /\ LET out == mouseMoveEvent(preview_label, pos)
       IN  /\ preview_label' = out.lbl
           /\ alive' = out.ok
    /\ dialog' = ""
    /\ UNCHANGED <<edit_vars, worker, threads, sigq, input_vars, pushed, raised>>
    /\ request(1)

\* a mouse button released: CropLabel.mouseReleaseEvent and the slots of the
\* signals it emits, watermark_position_selected first
on_mouse_release(button, pos) ==
    /\ alive
    /\ button \in preview_label.buttons
    /\ LET Slots(out, pointed, shown) ==
               /\ alive' = out.ok
               /\ panel' = IF out.rect = NoneRect THEN pointed
                           ELSE Committed(shown, pointed, current_image, out.rect)
               /\ preview_label' = IF out.rect = NoneRect THEN shown
                                   ELSE Finished(shown, current_image, out.rect)
           Selected(out, pointed) ==
               Slots(out, pointed,
                     IF out.point = NonePoint THEN out.lbl
                     ELSE update_watermark_preview(out.lbl, current_image, pointed))
           Handled(out) == Selected(out, PointSelected(panel, out.point))
       IN  Handled(mouseReleaseEvent(preview_label, button, pos))
    /\ dialog' = ""
    /\ UNCHANGED <<edit_vars, worker, threads, sigq, current_filter, s_slider, rotate_spin,
                   requests, pushed, raised>>

\* MainWindow.on_crop_ratio_changed: ratio_map
ratio_map(index) ==
    CASE index = 1 -> FInt(1)
      [] index = 2 -> Frac(4, 3)
      [] index = 3 -> Frac(16, 9)
      [] index = 4 -> Frac(3, 2)
      [] index = 5 -> Frac(21, 9)
      [] index = 6 -> Frac(9, 16)
      [] index = 7 -> Frac(2, 3)
      [] OTHER -> NoneRatio

\* crop_ratio_combo.currentIndexChanged -> MainWindow.on_crop_ratio_changed
on_crop_ratio_changed(index) ==
    /\ alive
    /\ ratio_map(index) # preview_label.aspect_ratio
    /\ preview_label' = set_aspect_ratio(preview_label, ratio_map(index))
    /\ dialog' = ""
    /\ UNCHANGED <<edit_vars, thread_vars, input_vars, pushed, raised>>
    /\ request(1)

\* wm_pos.currentTextChanged -> MainWindow._on_watermark_position_changed
on_watermark_position_changed(position) ==
    /\ alive
    /\ position # panel.wm_pos
    /\ panel' = WatermarkPanel(panel, position, current_image)
    /\ preview_label' = watermark_position_changed(preview_label, position, current_image,
                                                   panel)
    /\ dialog' = ""
    /\ UNCHANGED <<edit_vars, thread_vars, current_filter, s_slider, rotate_spin, pushed,
                   raised>>
    /\ request(1)

\* the user types numbers into the crop inputs
crop_edited(left, top, w, h) ==
    /\ alive
    /\ \/ <<left, top, w, h>> # <<panel.crop_left, panel.crop_top, panel.crop_w, panel.crop_h>>
       \/ ~panel.crop_numeric
    /\ panel' = [panel EXCEPT !.crop_left = left, !.crop_top = top, !.crop_w = w,
                              !.crop_h = h, !.crop_numeric = TRUE]
    /\ dialog' = ""
    /\ UNCHANGED <<edit_vars, thread_vars, current_filter, s_slider, rotate_spin,
                   preview_label, pushed, raised>>
    /\ request(1)

\* the user types a text that is no integer (letters, a fraction, nothing at
\* all) into one of the crop inputs
crop_text_edited ==
    /\ alive
    /\ panel.crop_numeric
    /\ panel' = [panel EXCEPT !.crop_numeric = FALSE]
    /\ dialog' = ""
    /\ UNCHANGED <<edit_vars, thread_vars, current_filter, s_slider, rotate_spin,
                   preview_label, pushed, raised>>
    /\ request(1)

\* MainWindow.apply_crop_rect: the rectangle after its boundary protection
CropRect(img, pnl) ==
    LET Sized(left, top) ==
            [left |-> left, top |-> top,
             w |-> Max(1, Min(pnl.crop_w, img.w - left)),
             h |-> Max(1, Min(pnl.crop_h, img.h - top))]
    IN  Sized(Max(0, Min(pnl.crop_left, img.w - 1)), Max(0, Min(pnl.crop_top, img.h - 1)))

\* MainWindow.apply_crop with MainWindow.apply_crop_rect: int() of the four
\* texts, a warning when one of them is no integer; else the crop runs in the
\* UI thread and its result is committed at once
apply_crop ==
    /\ alive
    /\ current_image # None
    /\ IF ~panel.crop_numeric
       THEN /\ dialog' = "warning: invalid crop parameters"
            /\ UNCHANGED <<current_image, history, redo_history, preview_label, requests,
                           pushed>>
       ELSE LET Cropped(r, img) ==
                    /\ push_history([f |-> "crop",
                                     a |-> CropBox(r.left, r.top, r.left + r.w, r.top + r.h)])
                    /\ current_image' = img
                    /\ preview_label' = clear_selection(update_preview(preview_label, img,
                                                                       s_slider, rotate_spin,
                                                                       panel))
                Bounded(r) == Cropped(r, ImageTools_crop(current_image, r.left, r.top,
                                                         r.w, r.h))
            IN  /\ Bounded(CropRect(current_image, panel))
                /\ dialog' = ""
    /\ UNCHANGED <<original_image, thread_vars, input_vars, raised>>

\* ------------------------------------------------------------ specification
\* the handlers of the edit session
NextSession ==
    \/ \E f \in Files : open_image(f)
    \/ reset_all_effects
    \/ apply_scale(ZoomInPct)
    \/ on_slider_scale
    \/ \E angle \in {RotateButtonAngle, rotate_spin} : apply_rotate(angle)
    \/ apply_watermark("Hello")
    \/ apply_filter
    \/ undo
    \/ redo
    \/ \E i \in DOMAIN threads, raises \in BOOLEAN : WorkerThread_run(i, raises)
    \/ on_worker_finished

\* the handlers of the view and of the parameter inputs
NextView ==
    \/ \E value \in SliderValues : on_slider_value_changed(value)
    \/ \E angle \in SpinValues : on_rotate_spin_changed(angle)
    \/ reset_preview_view
    \/ \E filter_type \in Filters : on_filter_changed(filter_type)

Next ==
    \/ NextSession
    \/ \E i \in DOMAIN sigq : discard_emission(i)
    \/ NextView

Spec == Init /\ [][Next]_vars

\* A session with a long history: file 1 opened and then n edits (zoom-in
\* button, each committed before the next request), for n around max_history,
\* with room for one more request.
RECURSIVE Edited(_)
Edited(n) ==
    IF n = 0 THEN Image_open(1)
    ELSE CallFunc([f |-> "scale", a |-> ZoomInPct], Edited(n - 1))

RECURSIVE HistoryAfter(_)
HistoryAfter(n) ==
    IF n = 0 THEN <<>> ELSE PushedHistory(HistoryAfter(n - 1), Edited(n - 1))

DeepEdits == {max_history - 1, max_history, max_history + 1}

InitDeep ==
    \E n \in DeepEdits :
        /\ alive = TRUE
        /\ original_image = Image_open(1)
        /\ current_image = Edited(n)
        /\ history = HistoryAfter(n)
        /\ redo_history = <<>>
        /\ worker = "None"
        /\ threads = <<>>
        /\ sigq = <<>>
        /\ dialog = ""
        /\ current_filter = "none"
        /\ s_slider = SliderDefault
        /\ rotate_spin = 0
        /\ panel = Panel_init
        /\ preview_label = update_preview(CropLabel_init, Edited(n), SliderDefault, 0,
                                         Panel_init)
        /\ requests = MaxRequests - 2
        /\ pushed = [i \in 1..n |->
                        [img |-> Edited(i - 1), func |-> [f |-> "scale", a |-> ZoomInPct],
                         n |-> 0]]
        /\ raised = {}

\* one more request is made in such a session; with a single worker started,
\* no WorkerThread ever loses its reference
SpecDeep == InitDeep /\ [][NextSession]_vars

\* ---------------------------------------------------------------- the view
\* A session in which the preview is zoomed and panned.  It starts with an
\* image shown: file 1 or 2 as opened, or file 1 cropped to TinySide pixels
\* each way with the crop inputs and "apply crop"; the zoom slider was set
\* before; and the wheel may have been turned up about the label centre until
\* the zoom reached its maximum (steps about one point compose, so the view
\* is the one zoom_to gives in one step).
TinySide == 5
ViewFiles == {1, 2}
ZoomSliders == {10, 50, SliderDefault, 300}
Tiny == ImageTools_crop(Image_open(1), 0, 0, TinySide, TinySide)
TinyPanel == [Panel_init EXCEPT !.crop_w = TinySide, !.crop_h = TinySide]

Shown(img, slider, pnl) == update_preview(CropLabel_init, img, slider, 0, pnl)
WheeledUp(lbl) == zoom_to(lbl, LabelCentre, ZoomMax)

\* no worker, no dialog, no filter or rotation chosen, nothing to redo, and
\* budget requests left
InitIdle(budget) ==
    /\ alive = TRUE
    /\ worker = "None"
    /\ threads = <<>>
    /\ sigq = <<>>
    /\ dialog = ""
    /\ current_filter = "none"
    /\ rotate_spin = 0
    /\ requests = MaxRequests - budget
    /\ raised = {}
    /\ redo_history = <<>>

InitView(budget) ==
    /\ InitIdle(budget)
    /\ s_slider \in ZoomSliders
    /\ \/ \E f \in ViewFiles :
             /\ original_image = Image_open(f)
             /\ current_image = Image_open(f)
             /\ history = <<>>
             /\ pushed = <<>>
             /\ panel = Panel_init
       \/ /\ original_image = Image_open(1)
          /\ current_image = Tiny
          /\ history = <<Image_open(1)>>
          /\ pushed = <<[img |-> Image_open(1),
                         func |-> [f |-> "crop", a |-> CropBox(0, 0, TinySide, TinySide)],
                         n |-> 0]>>
          /\ panel = TinyPanel

InitZoom ==
    /\ InitView(2)
    /\ preview_label \in
           {Shown(current_image, s_slider, panel)} \cup
           (IF s_slider = 300 THEN {WheeledUp(Shown(current_image, s_slider, panel))}
            ELSE {})

\* the handlers that change the zoom and the pan, and those that show an image
NextZoom ==
    \/ \E p \in Points, up \in BOOLEAN : on_wheel(p, up)
    \/ \E c \in Points \cup {Outside} : zoom_in_preview(c)
    \/ \E c \in Points \cup {Outside} : zoom_out_preview(c)
    \/ \E value \in ZoomSliders : on_slider_value_changed(value)
    \/ reset_preview_view
    \/ \E p \in Points : on_mouse_press("Right", p)
    \/ \E p \in Points : on_mouse_move(p)
    \/ \E p \in Points : on_mouse_release("Right", p)
    \/ apply_crop
    \/ \E f \in ViewFiles : open_image(f)

SpecZoom == InitZoom /\ [][NextZoom]_vars

\* ----------------------------------------------------------- the selection
\* A session in which rectangles and points are selected with the mouse.  It
\* starts with file 1 shown at the zoom of the slider; a rectangle may have
\* been dragged from DragFrom to DragTo before, and a ratio may have been
\* chosen in the crop ratio combo after that.
SelectSliders == {50, SliderDefault, 150, 300}
RatioIndexes == {0, 2, 5}
Buttons == {"Left", "Right"}
WatermarkPositions == {"bottom-right", "custom"}
DragFrom == <<200, 150>>
DragTo == <<214, 160>>

\* the label and the panel after a drag from p1 to p2 with the left button,
\* no ratio being locked
Dragged(lbl, pnl, img, p1, p2) ==
    LET Handled(out) ==
            IF out.rect = NoneRect THEN [lbl |-> out.lbl, panel |-> pnl]
            ELSE [lbl |-> Finished(out.lbl, img, out.rect),
                  panel |-> Committed(out.lbl, pnl, img, out.rect)]
    IN  Handled(mouseReleaseEvent(mouseMoveEvent(mousePressEvent(lbl, "Left", p1),
                                                  p2).lbl,
                                   "Left", p2))

InitSelect ==
    /\ InitIdle(2)
    /\ s_slider \in SelectSliders
    /\ original_image = Image_open(1)
    /\ current_image = Image_open(1)
    /\ history = <<>>
    /\ pushed = <<>>
    /\ \E dragged \in BOOLEAN, index \in RatioIndexes :
          LET shown == Shown(current_image, s_slider, Panel_init)
              before == IF dragged
                        THEN Dragged(shown, Panel_init, current_image, DragFrom, DragTo)
                        ELSE [lbl |-> shown, panel |-> Panel_init]
          IN  /\ preview_label = set_aspect_ratio(before.lbl, ratio_map(index))
              /\ panel = before.panel

\* the handlers of the mouse over the preview and of the two combos that
\* change what the mouse selects
NextSelect ==
    \/ \E button \in Buttons, p \in Points : on_mouse_press(button, p)
    \/ \E p \in Points : on_mouse_move(p)
    \/ \E button \in Buttons, p \in Points : on_mouse_release(button, p)
    \/ \E index \in RatioIndexes : on_crop_ratio_changed(index)
    \/ \E position \in WatermarkPositions : on_watermark_position_changed(position)

SpecSelect == InitSelect /\ [][NextSelect]_vars

\* ---------------------------------------------------------------- the crop
\* A session in which file 1 is cropped with the crop inputs: it starts with
\* the file just opened, and the user types into the crop inputs, applies the
\* crop, and undoes and redoes it.
CropInputs == {<<10, 8, 20, 15>>, <<5, 5, 5, 5>>, <<0, 0, 0, 15>>, <<10, 8, 20, -3>>,
               <<30, 20, 20, 15>>}

InitCrop ==
    /\ InitIdle(MaxRequests)
    /\ s_slider = SliderDefault
    /\ original_image = Image_open(1)
    /\ current_image = Image_open(1)
    /\ history = <<>>
    /\ pushed = <<>>
    /\ panel = Panel_init
    /\ preview_label = Shown(current_image, s_slider, panel)

NextCrop ==
    \/ \E c \in CropInputs : crop_edited(c[1], c[2], c[3], c[4])
    \/ crop_text_edited
    \/ apply_crop
    \/ undo
    \/ redo

SpecCrop == InitCrop /\ [][NextCrop]_vars

\* ------------------------------------------------- the view of an edited image
\* A session in which only the view is changed.  It starts after file 1 was
\* opened, enlarged twice with the zoom-in button (each result committed) and
\* the second enlargement undone: one snapshot on the undo stack, one on the
\* redo stack.
FrameSliders == {SliderDefault, 300}

InitFrame ==
    /\ alive = TRUE
    /\ original_image = Image_open(1)
    /\ current_image = Edited(1)
    /\ history = <<Image_open(1)>>
    /\ redo_history = <<Edited(2)>>
    /\ worker = "None"
    /\ threads = <<>>
    /\ sigq = <<>>
    /\ dialog = ""
    /\ current_filter = "none"
    /\ s_slider \in FrameSliders
    /\ rotate_spin = 0
    /\ panel = Panel_init
    /\ preview_label = Shown(current_image, s_slider, panel)
    /\ requests = MaxRequests - 2
    /\ pushed = <<>>
    /\ raised = {}

\* the handlers that change what the preview shows and what is selected in it
NextFrame ==
    \/ \E p \in Points, up \in BOOLEAN : on_wheel(p, up)
    \/ \E c \in Points \cup {Outside} : zoom_in_preview(c)
    \/ \E c \in Points \cup {Outside} : zoom_out_preview(c)
    \/ \E value \in FrameSliders : on_slider_value_changed(value)
    \/ \E angle \in SpinValues : on_rotate_spin_changed(angle)
    \/ reset_preview_view
    \/ \E button \in Buttons, p \in Points : on_mouse_press(button, p)
    \/ \E p \in Points : on_mouse_move(p)
    \/ \E button \in Buttons, p \in Points : on_mouse_release(button, p)

SpecFrame == InitFrame /\ [][NextFrame]_vars

\* ------------------------------------------ the variant that joins its thread
\* ImageProcessorApp of src/src/test/image_processor.py, in the variables of
\* the editor: current_image is self.image, worker is
\* self.current_operation_thread, threads holds the ImageProcessorThread whose
\* run() has not returned (at most one), sigq the emissions of `processed`
\* queued for the UI thread.  This program has no history and no CropLabel.
RotateAngles == {90, 180}

\* ImageProcessorThread.run for "rotate" and "watermark": what it emits
ImageProcessorThread_result(func, img) ==
    CASE func.f = "rotate" -> ImageTools_rotate(img, func.a)
      [] OTHER -> ImageTools_same_size(img, func.f)

\* The tail shared by rotate_image_internal and add_watermark: wait() for the
\* running thread, whose emission stays queued behind the handler that is
\* executing, then rebind current_operation_thread to a new thread that is
\* given self.image, and start it.
join_and_start(func) ==
    /\ alive
    /\ current_image # None
    /\ sigq' = Released(IF threads = <<>> THEN sigq
                        ELSE Append(sigq,
                                    [res |-> ImageProcessorThread_result(Head(threads).func,
                                                                         Head(threads).img),
                                     img |-> Head(threads).img, held |-> TRUE]))
    /\ threads' = <<[func |-> func, img |-> current_image, held |-> TRUE,
                     n |-> requests + 1]>>
    /\ worker' = "set"
    /\ dialog' = ""
    /\ UNCHANGED <<alive, edit_vars, input_vars, preview_label, pushed, raised>>
    /\ request(1)

\* ImageProcessorApp.rotate_image_internal, from rotate_image (90) or
\* rotate_image_by_angle (the spin box)
rotate_image_internal(angle) == join_and_start([f |-> "rotate", a |-> angle])

\* ImageProcessorApp.add_watermark; a blank text returns at once
add_watermark(text) ==
    /\ text # ""
    /\ join_and_start([f |-> "watermark", a |-> 0])

\* ImageProcessorThread.run returns by itself: `processed` is emitted from the
\* thread and queued to the UI thread
ImageProcessorThread_run ==
    /\ alive
    /\ threads # <<>>
    /\ sigq' = Append(sigq, [res |-> ImageProcessorThread_result(Head(threads).func,
                                                                 Head(threads).img),
                             img |-> Head(threads).img, held |-> Head(threads).held])
    /\ threads' = <<>>
    /\ UNCHANGED <<alive, worker, edit_vars, dialog, input_vars, preview_label, requests,
                   pushed, raised>>

\* ImageProcessorApp.on_image_processed, for the oldest queued emission
on_image_processed ==
    /\ alive
    /\ sigq # <<>>
    /\ current_image' = Head(sigq).res
    /\ sigq' = Tail(sigq)
    /\ dialog' = ""
    /\ UNCHANGED <<alive, worker, threads, original_image, history, redo_history,
                   input_vars, preview_label, requests, pushed, raised>>

\* ImageProcessorApp with file 1 opened
InitJoin ==
    /\ InitIdle(MaxRequests)
    /\ s_slider = SliderDefault
    /\ original_image = Image_open(1)
    /\ current_image = Image_open(1)
    /\ history = <<>>
    /\ pushed = <<>>
    /\ panel = Panel_init
    /\ preview_label = CropLabel_init

NextJoin ==
    \/ \E angle \in RotateAngles : rotate_image_internal(angle)
    \/ add_watermark("Hello")
    \/ ImageProcessorThread_run
    \/ on_image_processed
    \/ \E i \in DOMAIN sigq : discard_emission(i)

SpecJoin == InitJoin /\ [][NextJoin]_vars

\* ================================================================== claims
LastN(seq, k) == SubSeq(seq, Len(seq) - k + 1, Len(seq))
Images(log) == [i \in 1..Len(log) |-> log[i].img]

\* a handler that applies a new edit (it calls push_history)
EditRequest ==
    \/ apply_scale(ZoomInPct)
    \/ on_slider_scale
    \/ \E angle \in {RotateButtonAngle, rotate_spin} : apply_rotate(angle)
    \/ apply_watermark("Hello")
    \/ apply_filter

\* C1: in every reachable state the undo stack and the redo stack each hold
\* at most max_history snapshots.
C1_StacksBounded ==
    /\ Len(history) <= max_history
    /\ Len(redo_history) <= max_history

\* a full history undone to the bottom: the redo stack holds max_history entries
C1_Witness == Len(redo_history) = max_history /\ history = <<>>

\* C2: every newly applied edit leaves the redo stack empty, and a redo
\* requested with the redo stack empty is refused as "nothing to redo".
C2_RedoInvalidated ==
    [][/\ EditRequest => redo_history' = <<>>
       /\ (redo /\ redo_history = <<>>) =>
              /\ dialog' = "information: nothing to redo"
              /\ redo_history' = <<>>
              /\ current_image' = current_image
              /\ history' = history]_vars

\* a redo refused right after an edit that was applied after an earlier one
C2_Witness ==
    /\ dialog = "information: nothing to redo"
    /\ Len(pushed) = 1
    /\ pushed[1].n = 4
    /\ redo_history = <<>>

\* C3: after more than max_history consecutive pushes the undo stack holds
\* exactly the max_history most recently pushed images, in push order.
C3_KeepsMostRecent ==
    Len(pushed) > max_history =>
        /\ Len(history) = max_history
        /\ history = LastN(Images(pushed), max_history)

\* twelve consecutive pushes
C3_Witness == Len(pushed) = max_history + 2

\* C4: undo moves the current image onto the redo stack and the top of the
\* undo stack into current; redo is the mirror image; nothing else in either
\* stack is added, removed or reordered.
C4_MirrorTransfers ==
    [][/\ (undo /\ history # <<>>) =>
              /\ redo_history' = Append(redo_history, current_image)
              /\ current_image' = history[Len(history)]
              /\ history' = SubSeq(history, 1, Len(history) - 1)
       /\ (redo /\ redo_history # <<>>) =>
              /\ history' = Append(history, current_image)
              /\ current_image' = redo_history[Len(redo_history)]
              /\ redo_history' = SubSeq(redo_history, 1, Len(redo_history) - 1)]_vars

\* undo and redo have acted with further entries below the tops of both stacks
C4_Witness ==
    /\ Len(history) >= 2
    /\ Len(redo_history) >= 2
    /\ Len(history) + Len(redo_history) = max_history

\* C5: undo with an empty undo stack, or redo with an empty redo stack, is
\* reported and leaves the current image and both stacks unchanged; the
\* process goes on.
C5_HistoryEmptyHarmless ==
    [][/\ (undo /\ history = <<>>) =>
              /\ dialog' = "information: nothing to undo"
              /\ alive'
              /\ UNCHANGED <<current_image, history, redo_history>>
       /\ (redo /\ redo_history = <<>>) =>
              /\ dialog' = "information: nothing to redo"
              /\ alive'
              /\ UNCHANGED <<current_image, history, redo_history>>]_vars

\* an undo refused with an image loaded and everything already undone
C5_Witness ==
    /\ dialog = "information: nothing to undo"
    /\ current_image # None
    /\ redo_history # <<>>

\* C6: at most one background operation is in flight at any time.
C6_SingleWorkerInFlight == Len(threads) <= 1

\* C7: an operation requested twice in a row (no load, undo or redo between,
\* neither call raising): once both are done the undo stack ends with the
\* original image and then the first result, and the current image is the
\* operation applied to the first result.
C7_SecondRunsAfterFirst ==
    (/\ alive
     /\ Len(pushed) = 2
     /\ pushed[1].func = pushed[2].func
     /\ pushed[1].func.f # "none"
     /\ {pushed[1].n, pushed[2].n} \cap raised = {}
     /\ threads = <<>>
     /\ sigq = <<>>)
    => LET first == CallFunc(pushed[1].func, pushed[1].img)
       IN  /\ Len(history) >= 2
           /\ LastN(history, 2) = <<pushed[1].img, first>>
           /\ current_image = CallFunc(pushed[2].func, first)

\* C8: the step in which the operation raises inside the worker leaves the
\* current image and both stacks as they are (the snapshot pushed at dispatch
\* stays), and the process goes on.
C8_FailureKeepsState ==
    [][(\E i \in DOMAIN threads : WorkerThread_run(i, TRUE)) =>
           /\ current_image' = current_image
           /\ history' = history
           /\ redo_history' = redo_history
           /\ alive']_vars

\* the only request's call has raised: its snapshot is on top of the undo
\* stack, a duplicate of the current image
C8_Witness ==
    /\ Len(pushed) = 1
    /\ pushed[1].n \in raised
    /\ history # <<>>
    /\ history[Len(history)] = current_image
    /\ threads = <<>>

\* C9: once nothing is running and nothing is queued, every dispatched
\* operation has been resolved and the session is idle: no worker is recorded.
C9_ResolvesToIdle ==
    (alive /\ threads = <<>> /\ sigq = <<>>) => worker = "None"

\* the view state of the preview: bitmap size, zoom, pan, preview rotation
View(lbl) == [pix |-> lbl.pix, zoom |-> lbl.zoom, ox |-> lbl.ox, oy |-> lbl.oy,
              rot |-> lbl.rot]

\* the handlers that load a new image or commit an edit result
LoadOrCommit == (\E f \in Files : open_image(f)) \/ on_worker_finished

Commit == on_worker_finished \/ apply_crop

\* C11: committing a successful edit leaves the zoom factor, the pan offset
\* and the preview rotation as they were before the commit.
C11_CommitKeepsView ==
    [][Commit =>
           /\ preview_label'.zoom = preview_label.zoom
           /\ preview_label'.ox = preview_label.ox
           /\ preview_label'.oy = preview_label.oy
           /\ preview_label'.rot = preview_label.rot]_vars

\* C12: the zoom factor of the preview is within [0.1, 10.0] in every
\* reachable state.
C12_ZoomInRange ==
    /\ ~FLess(preview_label.zoom, ZoomMin)
    /\ ~FLess(ZoomMax, preview_label.zoom)

\* the zoom stands at its maximum, which only wheel steps reach, after two
\* more inputs
C12_Witness ==
    /\ preview_label.zoom = ZoomMax
    /\ requests = MaxRequests
    /\ preview_label.buttons = {}

\* two results of screen_to_image_coords that are the same image point to
\* within one pixel on each axis
NearPoint(a, b) ==
    IF a = NonePoint \/ b = NonePoint THEN a = b
    ELSE Abs(a[1] - b[1]) <= 1 /\ Abs(a[2] - b[2]) <= 1

\* a zoom change about the screen point p: the wheel turned with the pointer
\* at p, or the zoom shortcut used with the cursor at p
ZoomAbout(p, zoom_in) == on_wheel(p, zoom_in) \/ zoom_preview(p, zoom_in)

\* C13: after a zoom change about the screen point p, screen_to_image_coords(p)
\* is the image point it was before the change, within 1 pixel on each axis.
C13_PivotInvariance ==
    [][\A p \in Points, zoom_in \in BOOLEAN :
           ZoomAbout(p, zoom_in) =>
               NearPoint(screen_to_image_coords(preview_label', p),
                         screen_to_image_coords(preview_label, p))]_vars

\* two views whose pan offsets differ by at most one pixel on each axis
NearPan(a, b) ==
    /\ ~FLess(FInt(1), FAbs(FSub(a.ox, b.ox)))
    /\ ~FLess(FInt(1), FAbs(FSub(a.oy, b.oy)))

\* C14: zooming from z1 to z2 about a screen point and back from z2 to z1
\* about the same point returns the pan offset to within 1 pixel.  The way
\* there is a step of the program (the slider moved, which zooms about the
\* label centre, or a zoom step about p); the way back is the same handler
\* asked for the zoom before the step.
C14_ZoomRoundTrip ==
    [][/\ \A value \in ZoomSliders :
              on_slider_value_changed(value) =>
                  NearPan(set_zoom_factor(preview_label', preview_label.zoom), preview_label)
       /\ \A p \in Points, zoom_in \in BOOLEAN :
              (/\ ZoomAbout(p, zoom_in)
               /\ zoom_at_point(preview_label', p, ~zoom_in).zoom = preview_label.zoom)
                  => NearPan(zoom_at_point(preview_label', p, ~zoom_in), preview_label)]_vars

\* C15: screen_to_image_coords returns None when no image is shown, and with
\* a W x H image shown it resolves every screen point, inside the drawn
\* bitmap or not, to an image point with 0 <= x <= W-1 and 0 <= y <= H-1.
C15_ResolvesEveryPoint ==
    \A p \in Points \cup {Outside} :
        LET img_pos == screen_to_image_coords(preview_label, p)
        IN  IF current_image = None THEN img_pos = NonePoint
            ELSE /\ img_pos # NonePoint
                 /\ img_pos[1] \in 0..(current_image.w - 1)
                 /\ img_pos[2] \in 0..(current_image.h - 1)

\* The edges of an image rectangle mapped back to the screen with the scale
\* (drawn bitmap size over image size) and the origin (the bitmap's top-left
\* corner) that screen_rect_to_image_rect used: left, top, right, bottom.
ImageToScreenRect(lbl, r) ==
    LET sp == ScaledPixmap(lbl)
        sx(x) == FAdd(ImgX(lbl), Frac(x * sp.w, lbl.pix.w))
        sy(y) == FAdd(ImgY(lbl), Frac(y * sp.h, lbl.pix.h))
    IN  <<sx(r.x1), sy(r.y1), sx(r.x2 + 1), sy(r.y2 + 1)>>

\* the edges of a screen rectangle: left, top, right, bottom
Edges(r) == <<FInt(r.x1), FInt(r.y1), FInt(r.x2 + 1), FInt(r.y2 + 1)>>

\* the screen rectangle lies fully inside the drawn bitmap
InsideBitmap(lbl, r) ==
    /\ ~FLess(FInt(r.x1), ImgX(lbl))
    /\ ~FLess(FInt(r.y1), ImgY(lbl))
    /\ ~FLess(FAdd(ImgX(lbl), FInt(ScaledPixmap(lbl).w)), FInt(r.x2 + 1))
    /\ ~FLess(FAdd(ImgY(lbl), FInt(ScaledPixmap(lbl).h)), FInt(r.y2 + 1))

\* every edge of a is within one screen pixel of the same edge of b
NearEdges(a, b) == \A i \in 1..4 : ~FLess(FInt(1), FAbs(FSub(a[i], b[i])))

\* the rectangle the release of the left button at pos emits with
\* selection_finished, NoneRect if it emits none
Emitted(pos) == mouseReleaseEvent(preview_label, "Left", pos).rect

\* C16: a screen rectangle inside the drawn bitmap, converted to an image
\* rectangle and mapped back to the screen with the same scale and origin, has
\* its edges within 1 screen pixel of where they were.  Checked for every
\* rectangle a drag hands to the conversion while no ratio is locked.
C16_RectRoundTrip ==
    [][\A pos \in Points :
           (/\ on_mouse_release("Left", pos)
            /\ preview_label.aspect_ratio = NoneRatio
            /\ Emitted(pos) # NoneRect
            /\ InsideBitmap(preview_label, Emitted(pos))
            /\ screen_rect_to_image_rect(preview_label, Emitted(pos)) # NoneRect)
               => NearEdges(ImageToScreenRect(preview_label,
                                screen_rect_to_image_rect(preview_label, Emitted(pos))),
                            Edges(Emitted(pos)))]_vars
\* one screen pixel plus the size of one image pixel on the screen
PixelTolerance(lbl) ==
    FAdd(FInt(1), FMax(Frac(ScaledPixmap(lbl).w, lbl.pix.w),
                       Frac(ScaledPixmap(lbl).h, lbl.pix.h)))

\* every edge of a is within tol of the same edge of b
EdgesWithin(a, b, tol) == \A i \in 1..4 : ~FLess(tol, FAbs(FSub(a[i], b[i])))

\* C16 (amended): the edges of the rectangle mapped back are within one screen
\* pixel plus one image pixel (at the current scale) of where they were.
C16_RectRoundTripScaled ==
    [][\A pos \in Points :
           (/\ on_mouse_release("Left", pos)
            /\ preview_label.aspect_ratio = NoneRatio
            /\ Emitted(pos) # NoneRect
            /\ InsideBitmap(preview_label, Emitted(pos))
            /\ screen_rect_to_image_rect(preview_label, Emitted(pos)) # NoneRect)
               => EdgesWithin(ImageToScreenRect(preview_label,
                                  screen_rect_to_image_rect(preview_label, Emitted(pos))),
                              Edges(Emitted(pos)),
                              PixelTolerance(preview_label))]_vars

\* a drag inside the bitmap was converted and committed to the crop fields
C16_Witness ==
    /\ alive
    /\ requests = MaxRequests
    /\ ~preview_label.selecting
    /\ preview_label.aspect_ratio = NoneRatio
    /\ current_rect(preview_label) # NoneRect
    /\ InsideBitmap(preview_label, current_rect(preview_label))
    /\ LET r == screen_rect_to_image_rect(preview_label, current_rect(preview_label))
       IN  /\ r # NoneRect
           /\ panel.crop_left = r.x1 /\ panel.crop_top = r.y1
           /\ panel.crop_w = Width(r) /\ panel.crop_h = Height(r)


\* an image rectangle inside a W x H image with at least one pixel each way
WithinImage(r, img) ==
    /\ r.x1 >= 0 /\ r.y1 >= 0
    /\ r.x1 + Width(r) <= img.w /\ r.y1 + Height(r) <= img.h
    /\ Width(r) >= 1 /\ Height(r) >= 1

\* C17: every image rectangle screen_rect_to_image_rect reports lies inside
\* the image and is at least 1 x 1, whatever the screen rectangle, zoom, pan
\* and aspect-ratio setting.  Checked for every rectangle a release emits.
C17_RectWithinImage ==
    [][\A pos \in Points :
           (/\ on_mouse_release("Left", pos)
            /\ Emitted(pos) # NoneRect
            /\ screen_rect_to_image_rect(preview_label, Emitted(pos)) # NoneRect)
               => WithinImage(screen_rect_to_image_rect(preview_label, Emitted(pos)),
                              preview_label.pix)]_vars

\* the image rectangle MainWindow.on_selection_finished commits for the
\* rectangle a left release at pos emits: at least 5 x 5, NoneRect otherwise
CommittedRect(pos) ==
    LET r == IF Emitted(pos) = NoneRect THEN NoneRect
             ELSE screen_rect_to_image_rect(preview_label, Emitted(pos))
    IN  IF r = NoneRect THEN NoneRect
        ELSE IF Width(r) < 5 \/ Height(r) < 5 THEN NoneRect
        ELSE r

\* C18: with a ratio a locked, every committed image rectangle has
\* |width/height - a| < 0.01 and lies within the image.
C18_AspectLock ==
    [][\A pos \in Points :
           (/\ on_mouse_release("Left", pos)
            /\ preview_label.aspect_ratio # NoneRatio
            /\ CommittedRect(pos) # NoneRect)
               => /\ FLess(FAbs(FSub(Frac(Width(CommittedRect(pos)),
                                          Height(CommittedRect(pos))),
                                     preview_label.aspect_ratio)),
                           Frac(1, 100))
                  /\ WithinImage(CommittedRect(pos), preview_label.pix)]_vars

\* the crop rectangle inputs of the side panel
CropFields(pnl) == <<pnl.crop_left, pnl.crop_top, pnl.crop_w, pnl.crop_h>>

\* the label shows no selection
Cleared(lbl) == ~lbl.selecting /\ lbl.start_pos = NonePoint /\ lbl.end_pos = NonePoint

\* C19: a finished drag changes the crop inputs only if its image rectangle is
\* at least 5 x 5; a smaller or unconvertible drag is discarded: the selection
\* is cleared and the crop inputs, the current image and the history are as
\* they were.
C19_CommitBySize ==
    [][\A pos \in Points :
           (/\ on_mouse_release("Left", pos)
            /\ preview_label.selecting
            /\ ~preview_label.watermark_mode)
               => /\ CropFields(panel') # CropFields(panel) => CommittedRect(pos) # NoneRect
                  /\ CommittedRect(pos) = NoneRect
                        => /\ Cleared(preview_label')
                           /\ CropFields(panel') = CropFields(panel)
                           /\ current_image' = current_image
                           /\ history' = history]_vars

\* the point a left release at pos emits with watermark_position_selected,
\* NonePoint if it emits none
Pointed(pos) == mouseReleaseEvent(preview_label, "Left", pos).point

\* C20: while watermark mode is on, a left press starts no drag, and a left
\* release emits no selection_finished rectangle, even with a rectangle
\* selected before the mode was enabled; the point it emits lies in the image.
C20_ModesExclusive ==
    [][\A pos \in Points :
           /\ (on_mouse_press("Left", pos) /\ preview_label.watermark_mode)
                 => ~preview_label'.selecting
           /\ (on_mouse_release("Left", pos) /\ preview_label.watermark_mode)
                 => /\ Emitted(pos) = NoneRect
                    /\ Pointed(pos) # NonePoint
                          => /\ Pointed(pos)[1] \in 0..(preview_label.pix.w - 1)
                             /\ Pointed(pos)[2] \in 0..(preview_label.pix.h - 1)]_vars

\* C21: a crop request whose parameters are non-numeric or describe a
\* rectangle of zero area (width <= 0 or height <= 0) is rejected before
\* anything changes: nothing is pushed on the undo stack, the redo stack is
\* not cleared and the current image stays.
C21_InvalidCropRejected ==
    [][(apply_crop /\ (~panel.crop_numeric \/ panel.crop_w <= 0 \/ panel.crop_h <= 0))
          => UNCHANGED <<current_image, history, redo_history>>]_vars

\* the crop inputs name a rectangle lying inside the image
CropInside(pnl, img) ==
    /\ pnl.crop_numeric
    /\ pnl.crop_left >= 0 /\ pnl.crop_top >= 0
    /\ pnl.crop_w >= 1 /\ pnl.crop_h >= 1
    /\ pnl.crop_left + pnl.crop_w <= img.w
    /\ pnl.crop_top + pnl.crop_h <= img.h

\* C22: for a crop rectangle (left, top, w, h) lying inside the current image,
\* the current image after the crop is exactly w x h and the image before the
\* crop is on top of the undo stack; an undo that follows the crop makes the
\* image before the crop current again.
C22_CropThenUndo ==
    [][/\ (apply_crop /\ CropInside(panel, current_image))
             => /\ current_image'.w = panel.crop_w
                /\ current_image'.h = panel.crop_h
                /\ history' # <<>>
                /\ Top(history') = current_image
       /\ (undo /\ pushed # <<>> /\ Top(pushed).func.f = "crop")
             => current_image' = Top(pushed).img]_vars

\* the rectangle (10, 8, 20, 15) was cut out of the 40x30 file and the crop
\* was undone
C22_Witness ==
    /\ current_image = Image_open(1)
    /\ history = <<>>
    /\ redo_history = <<ImageTools_crop(Image_open(1), 10, 8, 20, 15)>>
    /\ Top(redo_history).w = 20
    /\ Top(redo_history).h = 15

\* C23: the view-only actions (wheel zoom, zoom_at_point, set_zoom_factor by
\* the slider, the right-button pan, a change of the preview rotation, the
\* view reset and the drag of a selection) leave the current image, the undo
\* stack and the redo stack as they were.
C23_ViewLeavesHistory ==
    [][(\/ \E p \in Points, up \in BOOLEAN : on_wheel(p, up)
        \/ \E c \in Points \cup {Outside} : zoom_in_preview(c)
        \/ \E c \in Points \cup {Outside} : zoom_out_preview(c)
        \/ \E value \in FrameSliders : on_slider_value_changed(value)
        \/ \E angle \in SpinValues : on_rotate_spin_changed(angle)
        \/ reset_preview_view
        \/ \E button \in Buttons, p \in Points : on_mouse_press(button, p)
        \/ \E p \in Points : on_mouse_move(p)
        \/ \E button \in Buttons, p \in Points : on_mouse_release(button, p))
          => UNCHANGED <<current_image, history, redo_history>>]_vars

\* a selection was dragged and committed to the crop inputs while a snapshot
\* was on each stack
C23_Witness ==
    /\ CropFields(panel) # CropFields(Panel_init)
    /\ preview_label.start_pos # NonePoint
    /\ current_image = Edited(1)
    /\ history = <<Image_open(1)>>
    /\ redo_history = <<Edited(2)>>

\* C24 as claimed: after a view reset the zoom factor is 1.0, the pan offset
\* is (0,0) and the preview rotation angle is 0, whatever the view was.
C24_ResetAllThree ==
    [][reset_preview_view =>
           /\ preview_label'.zoom = FInt(1)
           /\ preview_label'.ox = FInt(0)
           /\ preview_label'.oy = FInt(0)
           /\ preview_label'.rot = 0]_vars

\* C24: after a view reset the zoom factor is 1.0 and the pan offset is
\* (0,0), whatever the view was; the preview rotation angle is the one before
\* the reset.
C24_ResetZoomAndPan ==
    [][reset_preview_view =>
           /\ preview_label'.zoom = FInt(1)
           /\ preview_label'.ox = FInt(0)
           /\ preview_label'.oy = FInt(0)
           /\ preview_label'.rot = preview_label.rot]_vars

\* the view was reset while the slider stood at 300% and the preview was
\* turned by 90 degrees
C24_Witness ==
    /\ s_slider = 300
    /\ rotate_spin = 90
    /\ requests = MaxRequests
    /\ preview_label.pix = QPixmap(current_image)
    /\ preview_label.zoom = FInt(1)
    /\ preview_label.ox = FInt(0)
    /\ preview_label.oy = FInt(0)
    /\ preview_label.rot = 90

\* C25: with an aspect ratio locked, releasing the left button at the end
\* point of the drag (a press and release without a move included) completes
\* without an error: the handler returns and the process goes on.
C25_ReleaseAtEndPoint ==
    [][\A pos \in Points :
          (/\ on_mouse_release("Left", pos)
           /\ preview_label.selecting
           /\ preview_label.aspect_ratio # NoneRatio
           /\ ~(preview_label.watermark_mode /\ preview_label.watermark_pos # NonePoint)
           /\ preview_label.end_pos = pos)
             => alive']_vars

\* C26: in every reachable state the undo stack and the redo stack together
\* hold at most max_history snapshots; so whenever undo can run the redo
\* stack has room for the current image, and whenever redo can run the undo
\* stack has: the eviction branches of undo() and redo() are never taken.
C26_StacksTogetherBounded ==
    /\ Len(history) + Len(redo_history) <= max_history
    /\ history # <<>> => Len(redo_history) + 1 <= max_history
    /\ redo_history # <<>> => Len(history) + 1 <= max_history

\* both stacks hold snapshots and together they are full
C26_Witness ==
    /\ history # <<>>
    /\ redo_history # <<>>
    /\ Len(history) + Len(redo_history) = max_history

\* C27: every committed edit is undoable: right after a worker's result was
\* committed as the current image, the undo stack is not empty and its top is
\* the image the operation was applied to, also when undo or redo ran while
\* the operation was pending.
C27_CommitIsUndoable ==
    [][on_worker_finished =>
           /\ history' # <<>>
           /\ Top(history') = Head(sigq).img]_vars

\* C28: once open_image or reset_all_effects has replaced the current image
\* and cleared both stacks, no result of an operation dispatched before is
\* committed: while both stacks are empty and no edit was pushed since, the
\* current image is the loaded (the original) image.
C28_NoStaleCommit ==
    (history = <<>> /\ redo_history = <<>> /\ pushed = <<>>)
        => current_image = original_image

\* C30: applying the filter while "no filter" is selected changes nothing of
\* the edit state: the current image, the undo stack and the redo stack are
\* after apply_filter what they were before.
C30_NoFilterNoEdit ==
    [][(apply_filter /\ current_filter = "none")
          => UNCHANGED <<current_image, history, redo_history>>]_vars

\* C29: in the variant that joins the running thread, a rotate or watermark
\* requested while the thread of a previous operation is running is applied
\* to that operation's result: the image handed to the new thread is what the
\* joined thread produced.
C29_JoinedResultIsInput ==
    [][((\/ \E angle \in RotateAngles : rotate_image_internal(angle)
         \/ add_watermark("Hello"))
        /\ threads # <<>>)
          => Head(threads').img =
                 ImageProcessorThread_result(Head(threads).func, Head(threads).img)]_vars

====
